---- MODULE Spec2Model ----
(***************************************************************************)
(* msnmp: the SNMPv3 client's request/response exchange.                   *)
(*                                                                         *)
(* Client::send_request, Client::send_msg and Client::recv_msg of          *)
(* src/msnmp/src/client.rs and the key set-up of execute_request of        *)
(* src/msnmp/src/lib.rs, as a state machine.  The remote engine and the    *)
(* UDP socket are the environment: every socket call returns one of the    *)
(* outcomes std::io allows, every received datagram is drawn from a small  *)
(* set of datagrams.                                                       *)
(*                                                                         *)
(* One behaviour is one call of send_request on a freshly constructed      *)
(* session.  The recursion of send_request keeps no state but the innermost*)
(* frame's msg and original_msg (an outer frame only passes the inner      *)
(* result on), so the model keeps those two and counts the frames.         *)
(***************************************************************************)
EXTENDS Integers, Sequences, FiniteSets, TLC

VARIABLES
    pc,              \* where the program is (see PcValues)
    session,         \* Session: engine clock and the keys it holds
    msg,             \* `msg` of the innermost send_request frame
    original_msg,    \* `original_msg` of the innermost send_request frame
    encoded_msg,     \* the bytes send_msg hands to socket.send
    result,          \* value returned by send_msg / recv_msg / send_request
    depth,           \* number of nested send_request frames = send_msg calls
    send_log,        \* outcomes of socket.send in the current send_msg call
    recv_log,        \* what each slot of the current recv_msg loop ended in
    recv_steps,      \* collaborator calls made on the last received datagram
    caller_msg,      \* history: the caller's message when send_request began
    resyncs,         \* history: retransmits caused by a time-window report
    datagram,        \* buf[..len]: the datagram recv_msg is dealing with or returned on
    any_matched,     \* history: an id-matching datagram was processed in this call
    pending_report,  \* history: clock of the time-window report that was the
                     \* first id-matching datagram, until the next one arrives
    params,          \* Params: the command line execute_request was given
    expired,         \* the last socket call failed because its timeout ran out
    send_steps,      \* collaborator calls send_msg made on the message, in order
    usm_stats_not_in_time_window
                     \* the flag of lines 139-153 as the last stray datagram of
                     \* the current recv_msg call left it

vars == <<pc, session, msg, original_msg, encoded_msg, result, depth, send_log,
          recv_log, recv_steps, caller_msg, resyncs, datagram, any_matched,
          pending_report, params, expired, send_steps,
          usm_stats_not_in_time_window>>

-----------------------------------------------------------------------------
(* Bounds of the model and constants of the program.                       *)

\* const MAX_RETRIES: u32 = 2
MAX_RETRIES == 2

\* message identifiers are 1..MaxId
MaxId == 2

\* engine boots and engine time range over 0..MaxClock
MaxClock == 1

\* send_request frames are counted up to MaxDepth; the counter stays there
\* when the recursion goes deeper (the code itself has no limit)
MaxDepth == 3

Ids == 1..MaxId

ClockValues == 0..MaxClock

Min(a, b) == IF a < b THEN a ELSE b

\* snmp_mp::ObjectIdent::from_slice(&[1, 3, 6, 1, 6, 3, 15, 1, 1, 2, 0])
oid_usm_stats_not_in_time_window == <<1, 3, 6, 1, 6, 3, 15, 1, 1, 2, 0>>

\* an ordinary object (sysDescr.0)
oid_sys_descr == <<1, 3, 6, 1, 2, 1, 1, 1, 0>>

\* the var-bind lists a response may carry (names only)
VarBindLists ==
    { <<>>,
      <<oid_usm_stats_not_in_time_window>>,
      <<oid_sys_descr, oid_usm_stats_not_in_time_window>> }

\* std::io::ErrorKind values a socket call may fail with
SocketErrorKinds == {"WouldBlock", "TimedOut", "ConnectionReset", "ConnectionRefused"}

\* lines 30-31: the socket blocks with a read and a write timeout; when the
\* timeout runs out the call fails with WouldBlock on Unix and with TimedOut
\* on Windows
TimeoutExpiryKinds == {"WouldBlock", "TimedOut"}

\* whether a socket call that failed with this kind may have run out of time
MayHaveExpired(kind) == IF kind \in TimeoutExpiryKinds THEN BOOLEAN ELSE {FALSE}

\* outcomes of AuthKey::auth_in_msg
AuthOutcomes == {"Ok", "NotInTimeWindow", "WrongAuthParams"}

Undecodable(auth) ==
    [auth |-> auth, decodes |-> FALSE, id |-> 0, params_decode |-> FALSE,
     scoped_pdu_data |-> "none", var_binds |-> <<>>, engine_boots |-> 0, engine_time |-> 0]

BadParams(auth, id) ==
    [auth |-> auth, decodes |-> TRUE, id |-> id, params_decode |-> FALSE,
     scoped_pdu_data |-> "none", var_binds |-> <<>>, engine_boots |-> 0, engine_time |-> 0]

NoDatagram == [Undecodable("none") EXCEPT !.id = 0]

\* a datagram as socket.recv may deliver it: one that decodes fully, one whose
\* security parameters do not decode, or one that does not decode at all.
\*   auth            what auth_in_msg says of it under the session's key
\*   decodes         SnmpMsg::decode succeeds
\*   params_decode   SecurityParams::decode succeeds
\*   scoped_pdu_data plaintext, encrypted, or encrypted so that decrypt fails
Datagrams ==
    [ auth : AuthOutcomes, decodes : {TRUE}, id : Ids, params_decode : {TRUE},
      scoped_pdu_data : {"plaintext", "encrypted", "garbled"},
      var_binds : VarBindLists,
      engine_boots : ClockValues, engine_time : ClockValues ]
    \cup { BadParams(a, i) : a \in AuthOutcomes, i \in Ids }
    \cup { Undecodable(a) : a \in AuthOutcomes }

-----------------------------------------------------------------------------
(* Values.                                                                 *)

EmptySecurityParams ==
    [auth_params |-> "none", engine_boots |-> 0, engine_time |-> 0, priv_params |-> "none"]

\* a request as msg_factory hands it to send_request
NewRequest(id) ==
    [id |-> id, enc_layers |-> 0, security_params |-> EmptySecurityParams, auth_flag |-> FALSE]

NoMsg ==
    [id |-> 0, scoped_pdu_data |-> "none", var_binds |-> <<>>, engine_boots |-> 0, engine_time |-> 0]

\* no message content is covered by a signature
NoSigned == NewRequest(0)

NoEncoded == [msg |-> NewRequest(0), auth_params |-> "none", signed |-> NoSigned]

NoResult == [kind |-> "none", error |-> "none", msg |-> NoMsg]

Ok(m) == [kind |-> "Ok", error |-> "none", msg |-> m]

\* std::io::Error::new(kind, error)
Err(kind, error) == [kind |-> kind, error |-> error, msg |-> NoMsg]

NoClock == <<-1, -1>>

ClockOf(s) == <<s.engine_boots, s.engine_time>>

-----------------------------------------------------------------------------
(* send_msg, lines 74-102: the message and the bytes it builds.            *)

\* SecurityParams::new() and the setters of lines 74-80
NewSecurityParams(sess) ==
    [auth_params |-> "placeholder",
     engine_boots |-> sess.engine_boots,
     engine_time |-> sess.engine_time,
     priv_params |-> "none"]

\* a sender that leaves the scoped PDU as it is
EncryptScopedPduSkipped(m, sess) == m

\* lines 82-90: encrypt the scoped PDU and keep the privacy parameters
EncryptScopedPdu(m, sess) ==
    IF sess.priv_key
    THEN [m EXCEPT !.enc_layers = @ + 1]
    ELSE m

PrivParams(sp, sess) ==
    IF sess.priv_key THEN [sp EXCEPT !.priv_params = "salt"] ELSE sp

\* lines 92-96: embed the security parameters, set the auth flag
SetSecurityParams(m, sp) == [m EXCEPT !.security_params = sp]

\* a sender that sets the auth flag whatever the session holds
SetAuthFlagAlways(m, sess) == [m EXCEPT !.auth_flag = TRUE]

SetAuthFlag(m, sess) ==
    IF sess.auth_key THEN [m EXCEPT !.auth_flag = TRUE] ELSE m

\* the message as send_msg leaves it (lines 74-96)
SecuredMsg(m, sess) ==
    SetAuthFlag(
        SetSecurityParams(EncryptScopedPdu(m, sess),
                          PrivParams(NewSecurityParams(sess), sess)),
        sess)

\* line 98: msg.encode(); the bytes carry the message and the auth field
Encode(m) ==
    [msg |-> m, auth_params |-> m.security_params.auth_params, signed |-> NoSigned]

\* lines 100-102: auth_key.auth_out_msg writes the HMAC over the bytes;
\* signed is the message content those bytes held when the HMAC was computed
AuthOutMsg(bytes, sess) ==
    IF sess.auth_key
    THEN [bytes EXCEPT !.auth_params = "hmac", !.signed = bytes.msg]
    ELSE bytes

\* a sender that signs the serialized message before the payload is encrypted
\* and the privacy parameters are embedded
EncodedMsgSignedFirst(m, sess) ==
    [AuthOutMsg(Encode(SetAuthFlag(SetSecurityParams(m, NewSecurityParams(sess)), sess)),
                sess)
       EXCEPT !.msg = SecuredMsg(m, sess)]

\* lines 74-102: the bytes send_msg gives to socket.send
EncodedMsg(m, sess) == AuthOutMsg(Encode(SecuredMsg(m, sess)), sess)

\* lines 82-102: the calls send_msg makes on the message and its bytes
SendMsgSteps(sess) ==
    (IF sess.priv_key THEN <<"encrypt_scoped_pdu">> ELSE <<>>)
    \o <<"set_security_params">>
    \o (IF sess.auth_key THEN <<"set_auth_flag">> ELSE <<>>)
    \o <<"encode">>
    \o (IF sess.auth_key THEN <<"auth_out_msg">> ELSE <<>>)

\* a send loop that allows one attempt too many
SendBudgetLeftOffByOne(n) == n <= MAX_RETRIES

\* line 104: the send loop runs while fewer than MAX_RETRIES attempts are made
SendBudgetLeft(n) == n < MAX_RETRIES

-----------------------------------------------------------------------------
(* recv_msg, lines 127-216: what one received datagram leads to.           *)

\* line 127: the receive loop runs while fewer than MAX_RETRIES slots are used
RecvBudgetLeft(n) == n < MAX_RETRIES

\* a receiver that lets every verification failure pass
AuthFatalNever(auth) == FALSE

\* lines 149-157: every verification failure but NotInTimeWindow is returned
AuthFatal(auth) == auth \notin {"Ok", "NotInTimeWindow"}

\* lines 152-154: verification of this datagram said NotInTimeWindow
NotInTimeWindowFlag(d, sess) == sess.auth_key /\ d.auth = "NotInTimeWindow"

\* a flag declared outside the loop, which keeps what an earlier datagram set
FlagKeptAcrossDatagrams(before) == before

\* line 139: the flag is a new local, false, for every datagram received
FlagAtLine139(before) == FALSE

\* lines 139-158: the flag when verification of this datagram is done
TimeWindowFlag(d, sess, before) ==
    IF NotInTimeWindowFlag(d, sess) THEN TRUE ELSE FlagAtLine139(before)

\* line 160: SnmpMsg::decode
Decode(d) ==
    [id |-> d.id, scoped_pdu_data |-> d.scoped_pdu_data, var_binds |-> d.var_binds,
     engine_boots |-> d.engine_boots, engine_time |-> d.engine_time]

\* a receiver with the comparison of line 162 turned round
IsStrayWhenEqual(msg_id, sent_msg_id) == msg_id = sent_msg_id

\* a receiver that takes every datagram for the answer
IsStrayNever(msg_id, sent_msg_id) == FALSE

\* line 162: a datagram with another identifier is a stray one
IsStray(msg_id, sent_msg_id) == msg_id # sent_msg_id

\* lines 167-173: decrypt_scoped_pdu with the session's privacy key
DecryptScopedPdu(m, sess) ==
    IF sess.priv_key /\ m.scoped_pdu_data = "encrypted"
    THEN [m EXCEPT !.scoped_pdu_data = "plaintext"]
    ELSE m

DecryptFails(m, sess) == sess.priv_key /\ m.scoped_pdu_data = "garbled"

\* a receiver that takes any report for a time-window report
ReportOidAny(var_binds) == TRUE

\* lines 179-188: the first var-bind is usmStatsNotInTimeWindow
ReportOidOk(var_binds) == Head(var_binds) = oid_usm_stats_not_in_time_window

\* lines 180-185: plaintext().unwrap() and first().unwrap()
UnwrapPanics(m) == m.scoped_pdu_data # "plaintext" \/ m.var_binds = <<>>

\* a receiver that leaves the session's clock as it was
KeepClock(sess, boots, time) == sess

\* lines 197-199: the session takes the response's engine boots and time
AdoptClock(sess, boots, time) ==
    [sess EXCEPT !.engine_boots = boots, !.engine_time = time]

\* a receiver that takes the response's clock as soon as the security
\* parameters are decoded
SessionAdoptedEarly(sess, d) == AdoptClock(sess, d.engine_boots, d.engine_time)

\* lines 166-195: the returns between SecurityParams::decode and line 197
\* leave the session as it is
SessionOnEarlyReturn(sess, d) == sess

\* io::Error kind of a SecurityError / MsgProcessingError passed through `?`
ErrorKindOfSecurityError == "InvalidData"

ErrorKindOfMsgProcessingError == "InvalidData"

Outcome(next, res, sess, steps) ==
    [next |-> next, result |-> res, session |-> sess, steps |-> steps]

\* lines 138-211 for one datagram d: continue the loop, return, or panic
ProcessDatagram(d, sess, sent_msg_id, flag_before) ==
    LET flag == TimeWindowFlag(d, sess, flag_before)
        s0 == IF sess.auth_key THEN <<"auth_in_msg">> ELSE <<>>
        s1 == Append(s0, "decode")
        s2 == Append(s1, "decode_security_params")
        s3 == IF sess.priv_key THEN Append(s2, "decrypt") ELSE s2
        m  == DecryptScopedPdu(Decode(d), sess)
    IN  IF sess.auth_key /\ AuthFatal(d.auth)
        THEN Outcome("return", Err(ErrorKindOfSecurityError, d.auth), sess, s0)
        ELSE IF ~d.decodes
        THEN Outcome("return", Err(ErrorKindOfMsgProcessingError, "DecodeError"), sess, s1)
        ELSE IF IsStray(d.id, sent_msg_id)
        THEN Outcome("continue", NoResult, sess, s1)
        ELSE IF ~d.params_decode
        THEN Outcome("return", Err(ErrorKindOfSecurityError, "MalformedSecurityParams"), sess, s2)
        ELSE IF DecryptFails(Decode(d), sess)
        THEN Outcome("return", Err(ErrorKindOfMsgProcessingError, "DecryptError"),
                     SessionOnEarlyReturn(sess, d), s3)
        ELSE IF flag /\ UnwrapPanics(m)
        THEN Outcome("panic", NoResult, sess, s3)
        ELSE IF flag /\ ~ReportOidOk(m.var_binds)
        THEN Outcome("return", Err("InvalidData", "NotInTimeWindow"),
                     SessionOnEarlyReturn(sess, d), s3)
        ELSE IF flag
        THEN Outcome("return", Err("ConnectionReset", "NotInTimeWindow"),
                     AdoptClock(sess, d.engine_boots, d.engine_time), s3)
        ELSE Outcome("return", Ok(m),
                     AdoptClock(sess, d.engine_boots, d.engine_time), s3)

-----------------------------------------------------------------------------
(* send_request, lines 57-65.                                              *)

\* line 62: the error kind that makes send_request call itself again
IsRetransmitSignal(kind) == kind = "ConnectionReset"

\* a retransmit that reuses the message send_msg has already secured
RetransmitSecuredMsg(m, original) == m

\* line 62: the message the recursive call is given
RetransmitMsg(m, original) == original

-----------------------------------------------------------------------------
(* The state machine.                                                      *)

PcValues ==
    {"configure", "ready", "send_msg", "socket_send", "recv_msg", "datagram",
     "match", "returned", "panicked"}

Init ==
    /\ pc = "configure"
    /\ params \in [auth : BOOLEAN, privacy : BOOLEAN]
    /\ session = [engine_boots |-> 0, engine_time |-> 0,
                  auth_key |-> FALSE, priv_key |-> FALSE]
    /\ msg = NewRequest(0)
    /\ original_msg = NewRequest(0)
    /\ encoded_msg = NoEncoded
    /\ result = NoResult
    /\ depth = 0
    /\ send_log = <<>>
    /\ recv_log = <<>>
    /\ recv_steps = <<>>
    /\ caller_msg = NewRequest(0)
    /\ resyncs = 0
    /\ datagram = NoDatagram
    /\ any_matched = FALSE
    /\ pending_report = NoClock
    /\ expired = FALSE
    /\ send_steps = <<>>
    /\ usm_stats_not_in_time_window = FALSE

\* a set-up that installs each key whenever its password is given
ConfigureKeysSeparately(sess, auth, privacy) ==
    [sess EXCEPT !.auth_key = auth, !.priv_key = privacy]

\* lib.rs lines 60-70: the auth key, and inside that branch the privacy key;
\* auth and privacy say whether params.auth and params.privacy are Some
ConfigureKeys(sess, auth, privacy) ==
    [sess EXCEPT !.auth_key = auth, !.priv_key = auth /\ privacy]

\* lib.rs lines 57-70: the session execute_request hands to the request functions
ExecuteRequest ==
    /\ pc = "configure"
    /\ session' = ConfigureKeys(session, params.auth, params.privacy)
    /\ pc' = "ready"
    /\ UNCHANGED <<msg, original_msg, encoded_msg, result, depth, send_log, recv_log,
                   recv_steps, caller_msg, resyncs, datagram, any_matched, pending_report,
                   params, expired, send_steps, usm_stats_not_in_time_window>>

\* a request function calls send_request (lines 40-52): the clone is taken
SendRequest ==
    /\ pc = "ready"
    /\ \E id \in Ids :
          /\ msg' = NewRequest(id)
          /\ original_msg' = NewRequest(id)
          /\ caller_msg' = NewRequest(id)
    /\ pc' = "send_msg"
    /\ depth' = 1
    /\ UNCHANGED <<session, encoded_msg, result, send_log, recv_log, recv_steps,
                   resyncs, datagram, any_matched, pending_report, params, expired,
                   send_steps, usm_stats_not_in_time_window>>

\* send_msg lines 74-102: secure the message and serialize it
SendMsg ==
    /\ pc = "send_msg"
    /\ msg' = SecuredMsg(msg, session)
    /\ encoded_msg' = EncodedMsg(msg, session)
    /\ send_steps' = SendMsgSteps(session)
    /\ send_log' = <<>>
    /\ recv_log' = <<>>
    /\ recv_steps' = <<>>
    /\ usm_stats_not_in_time_window' = FALSE
    /\ result' = NoResult
    /\ pc' = "socket_send"
    /\ UNCHANGED <<session, original_msg, depth, caller_msg, resyncs, datagram,
                   any_matched, pending_report, params, expired>>

\* lines 105-112: socket.send succeeded; send_msg returns and recv_msg begins
SocketSendOk ==
    /\ pc = "socket_send"
    /\ SendBudgetLeft(Len(send_log))
    /\ send_log' = Append(send_log, "Ok")
    /\ pc' = "recv_msg"
    /\ expired' = FALSE
    /\ UNCHANGED <<session, msg, original_msg, encoded_msg, result, depth, recv_log,
                   recv_steps, caller_msg, resyncs, datagram, any_matched, pending_report,
                   params, send_steps, usm_stats_not_in_time_window>>

\* lines 106-109 and 115: WouldBlock, try again or give up with TimedOut
SocketSendWouldBlock ==
    /\ pc = "socket_send"
    /\ SendBudgetLeft(Len(send_log))
    /\ send_log' = Append(send_log, "WouldBlock")
    /\ IF SendBudgetLeft(Len(send_log) + 1)
       THEN UNCHANGED <<pc, result>>
       ELSE /\ result' = Err("TimedOut", "unable to send message")
            /\ pc' = "returned"
    /\ expired' \in MayHaveExpired("WouldBlock")
    /\ UNCHANGED <<session, msg, original_msg, encoded_msg, depth, recv_log,
                   recv_steps, caller_msg, resyncs, datagram, any_matched, pending_report,
                   params, send_steps, usm_stats_not_in_time_window>>

\* line 112 and line 54: any other send error leaves send_request through `?`
SocketSendErr ==
    /\ pc = "socket_send"
    /\ SendBudgetLeft(Len(send_log))
    /\ \E kind \in SocketErrorKinds \ {"WouldBlock"} :
          /\ send_log' = Append(send_log, kind)
          /\ result' = Err(kind, "socket send")
          /\ expired' \in MayHaveExpired(kind)
    /\ pc' = "returned"
    /\ UNCHANGED <<session, msg, original_msg, encoded_msg, depth, recv_log,
                   recv_steps, caller_msg, resyncs, datagram, any_matched, pending_report,
                   params, send_steps, usm_stats_not_in_time_window>>

\* `continue`: the loop of recv_msg goes on, or ends in line 215
RecvContinue(log) ==
    IF RecvBudgetLeft(Len(log))
    THEN /\ pc' = "recv_msg"
         /\ UNCHANGED result
    ELSE /\ result' = Err("TimedOut", "unable to receive message")
         /\ pc' = "match"

\* lines 131-134: socket.recv reports WouldBlock
SocketRecvWouldBlock ==
    /\ pc = "recv_msg"
    /\ RecvBudgetLeft(Len(recv_log))
    /\ recv_log' = Append(recv_log, "WouldBlock")
    /\ RecvContinue(recv_log')
    /\ expired' \in MayHaveExpired("WouldBlock")
    /\ UNCHANGED <<session, msg, original_msg, encoded_msg, depth, send_log,
                   recv_steps, caller_msg, resyncs, datagram, any_matched, pending_report,
                   params, send_steps, usm_stats_not_in_time_window>>

\* line 136: any other receive error is returned
SocketRecvErr ==
    /\ pc = "recv_msg"
    /\ RecvBudgetLeft(Len(recv_log))
    /\ \E kind \in SocketErrorKinds \ {"WouldBlock"} :
          /\ recv_log' = Append(recv_log, kind)
          /\ result' = Err(kind, "socket recv")
          /\ expired' \in MayHaveExpired(kind)
    /\ pc' = "match"
    /\ UNCHANGED <<session, msg, original_msg, encoded_msg, depth, send_log,
                   recv_steps, caller_msg, resyncs, datagram, any_matched, pending_report,
                   params, send_steps, usm_stats_not_in_time_window>>

\* line 128 and 138: socket.recv put a datagram into the buffer
SocketRecvOk ==
    /\ pc = "recv_msg"
    /\ RecvBudgetLeft(Len(recv_log))
    /\ \E d \in Datagrams : datagram' = d
    /\ pc' = "datagram"
    /\ expired' = FALSE
    /\ UNCHANGED <<session, msg, original_msg, encoded_msg, result, depth, send_log,
                   recv_log, recv_steps, caller_msg, resyncs, any_matched, pending_report,
                   params, send_steps, usm_stats_not_in_time_window>>

\* the datagram has the sent identifier and recv_msg got as far as comparing it
Matches(d, sess, sent_msg_id) ==
    /\ ~(sess.auth_key /\ d.auth = "WrongAuthParams")
    /\ d.decodes
    /\ d.id = sent_msg_id

\* the datagram is a time-window report the client can read: verification said
\* NotInTimeWindow and the first var-bind is usmStatsNotInTimeWindow
IsTimeWindowReport(d, sess) ==
    /\ sess.auth_key
    /\ d.auth = "NotInTimeWindow"
    /\ d.decodes
    /\ d.params_decode
    /\ \/ d.scoped_pdu_data = "plaintext"
       \/ d.scoped_pdu_data = "encrypted" /\ sess.priv_key
    /\ d.var_binds # <<>>
    /\ d.var_binds[1] = oid_usm_stats_not_in_time_window

\* lines 139-211: the datagram is verified, decoded, compared and decrypted
RecvDatagram ==
    /\ pc = "datagram"
    /\ LET out == ProcessDatagram(datagram, session, msg.id,
                                  usm_stats_not_in_time_window)
           hit == Matches(datagram, session, msg.id)
       IN  /\ session' = out.session
           /\ recv_steps' = out.steps
           /\ any_matched' = (any_matched \/ hit)
           /\ pending_report' =
                 IF ~hit THEN pending_report
                 ELSE IF ~any_matched /\ IsTimeWindowReport(datagram, session)
                 THEN <<datagram.engine_boots, datagram.engine_time>>
                 ELSE NoClock
           /\ \/ /\ out.next = "continue"
                 /\ recv_log' = Append(recv_log, "stray")
                 /\ RecvContinue(recv_log')
                 /\ datagram' = NoDatagram
                 /\ usm_stats_not_in_time_window' =
                       TimeWindowFlag(datagram, session, usm_stats_not_in_time_window)
              \/ /\ out.next = "return"
                 /\ recv_log' = Append(recv_log, "returned")
                 /\ result' = out.result
                 /\ pc' = "match"
                 /\ UNCHANGED <<datagram, usm_stats_not_in_time_window>>
              \/ /\ out.next = "panic"
                 /\ recv_log' = Append(recv_log, "panic")
                 /\ result' = NoResult
                 /\ pc' = "panicked"
                 /\ datagram' = NoDatagram
                 /\ UNCHANGED usm_stats_not_in_time_window
    /\ UNCHANGED <<msg, original_msg, encoded_msg, depth, send_log, caller_msg, resyncs,
                   params, expired, send_steps>>

\* line 58: the response is returned
MatchOk ==
    /\ pc = "match"
    /\ result.kind = "Ok"
    /\ pc' = "returned"
    /\ datagram' = NoDatagram
    /\ UNCHANGED <<session, msg, original_msg, encoded_msg, result, depth, send_log,
                   recv_log, recv_steps, caller_msg, resyncs, any_matched, pending_report,
                   params, expired, send_steps, usm_stats_not_in_time_window>>

\* line 62: send_request calls itself with original_msg, which it clones again
MatchRetransmit ==
    /\ pc = "match"
    /\ result.kind # "Ok"
    /\ IsRetransmitSignal(result.kind)
    /\ msg' = RetransmitMsg(msg, original_msg)
    /\ original_msg' = RetransmitMsg(msg, original_msg)
    /\ depth' = Min(depth + 1, MaxDepth)
    /\ resyncs' = IF result.error = "NotInTimeWindow"
                  THEN Min(resyncs + 1, MaxDepth - 1)
                  ELSE resyncs
    /\ pc' = "send_msg"
    /\ datagram' = NoDatagram
    /\ UNCHANGED <<session, encoded_msg, result, send_log, recv_log, recv_steps,
                   caller_msg, any_matched, pending_report, params, expired,
                   send_steps, usm_stats_not_in_time_window>>

\* line 63: every other error is returned
MatchErr ==
    /\ pc = "match"
    /\ result.kind # "Ok"
    /\ ~IsRetransmitSignal(result.kind)
    /\ pc' = "returned"
    /\ datagram' = NoDatagram
    /\ UNCHANGED <<session, msg, original_msg, encoded_msg, result, depth, send_log,
                   recv_log, recv_steps, caller_msg, resyncs, any_matched, pending_report,
                   params, expired, send_steps, usm_stats_not_in_time_window>>

Next ==
    \/ ExecuteRequest
    \/ SendRequest
    \/ SendMsg
    \/ SocketSendOk
    \/ SocketSendWouldBlock
    \/ SocketSendErr
    \/ SocketRecvWouldBlock
    \/ SocketRecvErr
    \/ SocketRecvOk
    \/ RecvDatagram
    \/ MatchOk
    \/ MatchRetransmit
    \/ MatchErr

Spec == Init /\ [][Next]_vars

\* every socket call returns and the single thread keeps running
FairSpec == Spec /\ WF_vars(Next)

ClockOfDatagram(d) == <<d.engine_boots, d.engine_time>>

\* the datagram verified as NotInTimeWindow, can be read, and its first
\* var-bind is another object than usmStatsNotInTimeWindow
IsUnexpectedReport(d, sess) ==
    /\ sess.auth_key
    /\ d.auth = "NotInTimeWindow"
    /\ d.decodes
    /\ d.params_decode
    /\ \/ d.scoped_pdu_data = "plaintext"
       \/ d.scoped_pdu_data = "encrypted" /\ sess.priv_key
    /\ d.var_binds # <<>>
    /\ d.var_binds[1] # oid_usm_stats_not_in_time_window

\* the datagram decodes completely and its payload can be read by this session
WellFormed(d, sess) ==
    /\ d.decodes
    /\ d.params_decode
    /\ \/ d.scoped_pdu_data = "plaintext"
       \/ d.scoped_pdu_data = "encrypted"
       \/ d.scoped_pdu_data = "garbled" /\ ~sess.priv_key

-----------------------------------------------------------------------------
(* The claims.                                                             *)

\* C1: within one call of send_request the request is retransmitted because
\* of a time-window resync at most once; a second resync-needed outcome is
\* returned to the caller and no third copy is sent.
C1_AtMostOneResyncRetransmit == resyncs <= 1

\* C2: the session's engine boots and time change only to the values carried
\* by a response whose signature was checked with the session's auth key
\* (outcome success or NotInTimeWindow); a response that was not
\* authenticated, as every response of a session without auth key, never
\* changes them.
C2_ClockOnlyFromAuthenticatedResponse ==
    [][ClockOf(session') # ClockOf(session)
         => /\ session.auth_key
            /\ datagram.auth \in {"Ok", "NotInTimeWindow"}
            /\ ClockOf(session') = ClockOfDatagram(datagram)]_vars

\* C3: when the first id-matching response is a time-window report carrying
\* (B, T) and the next id-matching response verifies successfully, the
\* request was sent exactly twice, the retransmit was built from a session
\* set to (B, T), and the second response is the result.
C3_ResyncThenSecondResponse ==
    [][(/\ pc = "datagram"
        /\ pending_report # NoClock
        /\ Matches(datagram, session, msg.id)
        /\ datagram.auth = "Ok"
        /\ WellFormed(datagram, session))
         => /\ depth = 2
            /\ ClockOf(encoded_msg.msg.security_params) = pending_report
            /\ pc' = "match"
            /\ result'.kind = "Ok"
            /\ result'.msg.id = datagram.id
            /\ result'.msg.var_binds = datagram.var_binds]_vars

\* C4: the message handed to send_msg, for the first transmission and for
\* every retransmit, is the caller's message as it was before send_msg
\* touched it; with a privacy key the payload that goes out was encrypted
\* exactly once.
C4_RetransmitUsesOriginal ==
    /\ pc = "send_msg" => msg = caller_msg
    /\ (pc = "socket_send" /\ session.priv_key) => encoded_msg.msg.enc_layers = 1
    /\ (pc = "socket_send" /\ ~session.priv_key) => encoded_msg.msg.enc_layers = 0

C4_Witness ==
    /\ pc = "socket_send"
    /\ depth = 2
    /\ session.priv_key
    /\ encoded_msg.msg.enc_layers = 1

\* C5: an id-matching response that verified as NotInTimeWindow and whose
\* first var-bind is not usmStatsNotInTimeWindow makes recv_msg fail with the
\* authentication error NotInTimeWindow of kind InvalidData, not the resync
\* signal, and send_request returns it without sending anything more.
C5_UnexpectedReportFails ==
    [][/\ (/\ pc = "datagram"
           /\ Matches(datagram, session, msg.id)
           /\ IsUnexpectedReport(datagram, session))
            => /\ pc' = "match"
               /\ result' = Err("InvalidData", "NotInTimeWindow")
       /\ (/\ pc = "match"
           /\ Matches(datagram, session, msg.id)
           /\ IsUnexpectedReport(datagram, session))
            => /\ pc' = "returned"
               /\ result' = result
               /\ depth' = depth
               /\ encoded_msg' = encoded_msg]_vars

C5_Witness ==
    /\ pc = "match"
    /\ Matches(datagram, session, msg.id)
    /\ IsUnexpectedReport(datagram, session)
    /\ result = Err("InvalidData", "NotInTimeWindow")

\* C6: send_request retransmits if and only if recv_msg processed a
\* time-window report; every other failure of recv_msg, a socket receive
\* error of any kind included, is returned unchanged without a retransmit.
C6_RetransmitOnlyOnReport ==
    [][pc = "match"
         => IF Matches(datagram, session, msg.id) /\ IsTimeWindowReport(datagram, session)
            THEN pc' = "send_msg"
            ELSE pc' = "returned" /\ result' = result]_vars

\* C7: every call of send_request comes to an end when every socket call
\* returns (a panic counts as an end here: the formula asks less than the
\* claim, which wants a response or an error back).
C7_SendRequestTerminates == <>(pc \in {"returned", "panicked"})

\* C8: after WouldBlock on 2 consecutive socket sends, send_msg returns
\* TimedOut, socket.send is not called a third time and send_request returns
\* that error without calling recv_msg.
C8_SendGivesUpAfterTwoWouldBlock ==
    /\ Len(send_log) <= 2
    /\ send_log = <<"WouldBlock", "WouldBlock">>
         => /\ pc = "returned"
            /\ result = Err("TimedOut", "unable to send message")
            /\ recv_log = <<>>
            /\ datagram = NoDatagram

C8_Witness ==
    /\ send_log = <<"WouldBlock", "WouldBlock">>
    /\ pc = "returned"
    /\ result.kind = "TimedOut"

\* C9: a datagram that passes verification and decoding but carries another
\* identifier is never returned and uses up one of the 2 receive slots;
\* socket.recv is called at most 2 times per recv_msg, and recv_msg returns
\* TimedOut when the slots are used up without an id-matching datagram.
C9_StrayDatagramsUseTheBudget ==
    /\ [](/\ Len(recv_log) <= 2
          /\ pc \in {"recv_msg", "datagram"} => Len(recv_log) < 2
          /\ result.kind = "Ok" => result.msg.id = msg.id
          /\ (Len(recv_log) = 2 /\ \A i \in 1..2 : recv_log[i] \in {"WouldBlock", "stray"})
               => /\ pc \in {"match", "returned"}
                  /\ result = Err("TimedOut", "unable to receive message"))
    /\ [][(/\ pc = "datagram"
           /\ ~(session.auth_key /\ datagram.auth = "WrongAuthParams")
           /\ datagram.decodes
           /\ datagram.id # msg.id)
            => /\ recv_log' = Append(recv_log, "stray")
               /\ result'.kind # "Ok"
               /\ pc' = IF Len(recv_log) = 0 THEN "recv_msg" ELSE "match"]_vars

C9_Witness ==
    /\ recv_log = <<"stray", "stray">>
    /\ pc = "returned"
    /\ result = Err("TimedOut", "unable to receive message")

\* C10: with an auth key, a datagram whose verification fails with another
\* error than NotInTimeWindow makes recv_msg return that failure at once:
\* nothing is decoded or decrypted, no further receive is attempted, the
\* session clock stays and send_request does not retransmit.
C10_VerificationFailureIsFatal ==
    [][/\ (pc = "datagram" /\ session.auth_key /\ datagram.auth = "WrongAuthParams")
            => /\ pc' = "match"
               /\ result'.kind \notin {"Ok", "ConnectionReset"}
               /\ result'.error = "WrongAuthParams"
               /\ recv_steps' = <<"auth_in_msg">>
               /\ session' = session
       /\ (pc = "match" /\ session.auth_key /\ datagram.auth = "WrongAuthParams")
            => /\ pc' = "returned"
               /\ result' = result
               /\ session' = session
               /\ depth' = depth]_vars

C10_Witness ==
    /\ pc = "match"
    /\ session.auth_key
    /\ datagram.auth = "WrongAuthParams"
    /\ result.error = "WrongAuthParams"
    /\ recv_steps = <<"auth_in_msg">>

\* C11: a message returned by send_request, from the first exchange or from
\* a retransmit, has the identifier of the caller's request message.
C11_ReturnedIdIsCallersId ==
    (pc = "returned" /\ result.kind = "Ok") => result.msg.id = caller_msg.id

C11_Witness ==
    /\ pc = "returned"
    /\ result.kind = "Ok"
    /\ resyncs = 1
    /\ depth = 2
    /\ result.msg.id = caller_msg.id

\* C12: recv_msg has written the report's engine boots and time into the
\* session when it returns the resync-needed outcome, and the security
\* parameters of the request retransmitted after the first exchange's
\* time-window report carry exactly the boots and time of that report.
C12_RetransmitCarriesReportClock ==
    /\ [](pc = "match" /\ result = Err("ConnectionReset", "NotInTimeWindow")
            => ClockOf(session) = ClockOfDatagram(datagram))
    /\ []((pc = "socket_send" /\ pending_report # NoClock)
            => /\ depth >= 2
               /\ ClockOf(encoded_msg.msg.security_params) = pending_report)

C12_Witness ==
    /\ pc = "socket_send"
    /\ depth = 2
    /\ pending_report = <<MaxClock, MaxClock>>
    /\ ClockOf(encoded_msg.msg.security_params) = <<MaxClock, MaxClock>>

\* C13: with a privacy key, the bytes send_msg passes to socket.send, for the
\* first transmission and for every retransmit, carry the scoped payload
\* encrypted and the privacy parameters of encrypt, never the plaintext.
C13_PayloadGoesOutEncrypted ==
    (session.priv_key /\ (pc = "socket_send" \/ send_log # <<>>))
      => /\ encoded_msg.msg.enc_layers >= 1
         /\ encoded_msg.msg.security_params.priv_params = "salt"

C13_Witness ==
    /\ session.priv_key
    /\ depth = 2
    /\ send_log = <<"WouldBlock", "Ok">>
    /\ encoded_msg.msg.enc_layers >= 1
    /\ encoded_msg.msg.security_params.priv_params = "salt"

\* C14: without an auth key, every message send_msg sends has the placeholder
\* authentication parameters, send_msg does not set the auth flag, and no
\* signature is written into the serialized bytes.
C14_NoAuthKeyNoSignature ==
    /\ []((~session.auth_key /\ (pc = "socket_send" \/ send_log # <<>>))
            => /\ encoded_msg.msg.security_params.auth_params = "placeholder"
               /\ encoded_msg.auth_params = "placeholder"
               /\ encoded_msg.signed = NoSigned
               /\ ~encoded_msg.msg.auth_flag)
    /\ [][(pc = "send_msg" /\ ~session.auth_key)
            => msg'.auth_flag = msg.auth_flag]_vars

C14_Witness ==
    /\ ~session.auth_key
    /\ depth = 1
    /\ send_log = <<"Ok">>
    /\ encoded_msg.auth_params = "placeholder"
    /\ ~encoded_msg.msg.auth_flag


\* C15: whatever the command line, the session execute_request hands to the
\* request functions holds a privacy key only if it holds an auth key; a
\* privacy password without an auth password installs no privacy key.
C15_PrivacyKeyNeedsAuthKey ==
    pc # "configure"
      => /\ session.priv_key => session.auth_key
         /\ (params.privacy /\ ~params.auth) => ~session.priv_key
         /\ session.auth_key = params.auth

C15_Witness ==
    /\ pc = "ready"
    /\ params.privacy
    /\ ~params.auth
    /\ ~session.priv_key
    /\ ~session.auth_key


\* C16: a socket read or write that fails because its timeout ran out ends
\* the call with an error, and no further socket attempt follows it in the
\* same exchange.
C16_TimeoutExpiryIsTerminal ==
    /\ [](expired => (pc \in {"match", "returned"} /\ result.kind \notin {"Ok", "none"}))
    /\ [][expired => (send_log' = send_log /\ recv_log' = recv_log)]_vars


\* C17: in every send_msg call the payload is encrypted (with a privacy key)
\* before the security parameters are embedded, then the auth flag is set
\* (with an auth key), then the message is serialized, then the signature is
\* computed, and only then are the bytes sent; the signature covers the
\* message as it goes out: encrypted payload, embedded privacy parameters.
C17_SendMsgOrder ==
    LET Called(a) == \E i \in 1..Len(send_steps) : send_steps[i] = a
        Before(a, b) ==
            \A i, j \in 1..Len(send_steps) :
                (send_steps[i] = a /\ send_steps[j] = b) => i < j
    IN  (pc = "socket_send" \/ send_log # <<>>)
          => /\ Called("encrypt_scoped_pdu") <=> session.priv_key
             /\ Called("set_security_params")
             /\ Called("set_auth_flag") <=> session.auth_key
             /\ Called("encode")
             /\ Called("auth_out_msg") <=> session.auth_key
             /\ Before("encrypt_scoped_pdu", "set_security_params")
             /\ Before("set_security_params", "set_auth_flag")
             /\ Before("set_security_params", "encode")
             /\ Before("set_auth_flag", "encode")
             /\ Before("encode", "auth_out_msg")
             /\ session.auth_key
                  => /\ encoded_msg.auth_params = "hmac"
                     /\ encoded_msg.signed = encoded_msg.msg
                     /\ encoded_msg.signed.auth_flag
             /\ (session.auth_key /\ session.priv_key)
                  => /\ encoded_msg.signed.enc_layers = 1
                     /\ encoded_msg.signed.security_params.priv_params = "salt"

C17_Witness ==
    /\ session.auth_key
    /\ session.priv_key
    /\ send_log = <<"Ok">>
    /\ send_steps = <<"encrypt_scoped_pdu", "set_security_params", "set_auth_flag",
                      "encode", "auth_out_msg">>
    /\ encoded_msg.signed = encoded_msg.msg
    /\ encoded_msg.signed.enc_layers = 1


\* C18: an id-matching response verified as NotInTimeWindow that has no
\* var-bind, or whose scoped payload is not there as plaintext, makes
\* recv_msg return the authentication error NotInTimeWindow as for any other
\* unexpected report content; recv_msg never panics.
C18_UnreadableReportFails ==
    /\ [](pc # "panicked")
    /\ [][(/\ pc = "datagram"
           /\ session.auth_key
           /\ datagram.auth = "NotInTimeWindow"
           /\ Matches(datagram, session, msg.id)
           /\ datagram.params_decode
           /\ ~(session.priv_key /\ datagram.scoped_pdu_data = "garbled")
           /\ \/ datagram.var_binds = <<>>
              \/ (~session.priv_key /\ datagram.scoped_pdu_data # "plaintext"))
            => /\ pc' = "match"
               /\ result' = Err("InvalidData", "NotInTimeWindow")]_vars


\* C19: no step of recv_msg changes the session's engine boots or time unless
\* it is the step that returns a response or the resync-needed outcome; so
\* when recv_msg returns any other error (socket error, budget used up,
\* verification, decode or decrypt failure, time-window flag on an unexpected
\* object) the clock is the one the call started with.
C19_ErrorLeavesClock ==
    [][(/\ pc \in {"recv_msg", "datagram"}
        /\ ~(/\ pc' = "match"
             /\ \/ result'.kind = "Ok"
                \/ result' = Err("ConnectionReset", "NotInTimeWindow")))
         => ClockOf(session') = ClockOf(session)]_vars

C19_Witness ==
    /\ pc = "match"
    /\ result = Err("InvalidData", "NotInTimeWindow")
    /\ recv_log = <<"stray", "returned">>
    /\ IsUnexpectedReport(datagram, session)
    /\ ClockOfDatagram(datagram) # ClockOf(session)


\* C20: the time-window flag belongs to one datagram.  A stray datagram that
\* verified as NotInTimeWindow is discarded and leaves the session clock as
\* it is, and an id-matching datagram that comes after it in the same
\* recv_msg call and verifies is returned as a response, not as a resync.
C20_FlagIsPerDatagram ==
    /\ [][(/\ pc = "datagram"
           /\ session.auth_key
           /\ datagram.auth = "NotInTimeWindow"
           /\ datagram.decodes
           /\ datagram.id # msg.id)
            => /\ session' = session
               /\ recv_log' = Append(recv_log, "stray")
               /\ result'.kind # "Ok"
               /\ result' # Err("ConnectionReset", "NotInTimeWindow")
               /\ usm_stats_not_in_time_window']_vars
    /\ [][(/\ pc = "datagram"
           /\ usm_stats_not_in_time_window
           /\ datagram.auth = "Ok"
           /\ Matches(datagram, session, msg.id)
           /\ WellFormed(datagram, session))
            => /\ pc' = "match"
               /\ result'.kind = "Ok"
               /\ result'.msg.id = datagram.id
               /\ result'.msg.var_binds = datagram.var_binds
               /\ ClockOf(session') = ClockOfDatagram(datagram)]_vars

C20_Witness ==
    /\ pc = "match"
    /\ usm_stats_not_in_time_window
    /\ recv_log = <<"stray", "returned">>
    /\ datagram.auth = "Ok"
    /\ result.kind = "Ok"
    /\ result.msg.id = msg.id


====
